---- MODULE Spec2Model ----
(***************************************************************************)
(* Model of sap-btp-usage-mcp-server: the SSE connection manager and the   *)
(* per-session lifecycle of sseHandler (src/src/sse/sse-handler.ts), and   *)
(* the authentication middleware (auth-middleware, jwt-validator).         *)
(***************************************************************************)
EXTENDS Integers, Sequences, FiniteSets, TLC

\* ------------------------------------------------------------------ bounds
MaxSessions == 2
MaxFrames == 2

Sessions == 1..MaxSessions

\* Values randomUUID() can return.
UUIDs == {100 + i : i \in Sessions}
NoId == 0
NoRes == 0

\* Payloads handed to sendToSession / broadcast: JSON.stringify succeeds on
\* "json" and throws a TypeError on "cyclic".
Payloads == {"json", "cyclic"}

VARIABLES
    connections,   \* SseConnectionManager.connections: Map in insertion order
    issued,        \* ids randomUUID() has returned so far
    pc,            \* per session: "new", "open" (handler ran), "failed" (handler threw)
    sessionId,     \* per session: const sessionId of the handler invocation
    heartbeatInterval,      \* per session: the setInterval handle is scheduled
    autoDisconnectTimeout,  \* per session: the setTimeout handle is scheduled
    ended,         \* per session: res.end() has been called
    closeEmitted,  \* per session: req has emitted 'close'
    errorEmitted,  \* per session: req has emitted 'error'
    cleanupCalls,  \* per session: number of times cleanup() ran
    stream,        \* per session: frames written to res, in order
    lastOp,        \* the operation the last step performed, with its result
    mcpSessionId,  \* per session: the value of the Mcp-Session-Id response header
    connectionData \* per session: the sessionId of the written 'connected' payload

sseVars == <<connections, issued, pc, sessionId, heartbeatInterval,
             autoDisconnectTimeout, ended, closeEmitted, errorEmitted,
             cleanupCalls, stream, lastOp, mcpSessionId, connectionData>>

\* ------------------------------------------------------------ Map (JS)
MapHas(m, id) == \E i \in 1..Len(m) : m[i].id = id

MapGet(m, id) ==
    IF MapHas(m, id)
    THEN m[CHOOSE i \in 1..Len(m) : m[i].id = id].res
    ELSE NoRes

\* Map.prototype.set: an existing key keeps its position and gets the new value.
MapSet(m, id, res) ==
    IF MapHas(m, id)
    THEN [i \in 1..Len(m) |-> IF m[i].id = id THEN [id |-> id, res |-> res] ELSE m[i]]
    ELSE Append(m, [id |-> id, res |-> res])

\* A delete that also removes every key inserted after the one deleted.
MapDeleteAndLater(m, id) ==
    IF MapHas(m, id)
    THEN SubSeq(m, 1, (CHOOSE i \in 1..Len(m) : m[i].id = id) - 1)
    ELSE m

MapDelete(m, id) == SelectSeq(m, LAMBDA e : e.id # id)

MapKeys(m) == [i \in 1..Len(m) |-> m[i].id]

SeqRange(q) == {q[i] : i \in 1..Len(q)}

\* The responses held by the map.
Registered(m) == {m[i].res : i \in 1..Len(m)}

\* ------------------------------------------------- SseConnectionManager
\* A registration that is lost.
addConnectionLost(m, id, res) == m

\* addConnection(sessionId, res), lines 15-18.
addConnection(m, id, res) == MapSet(m, id, res)

\* A removal that clears the whole map.
removeConnectionClear(m, id) == << >>

\* removeConnection(sessionId), lines 23-26.
removeConnection(m, id) == MapDelete(m, id)

getConnectionCount(m) == Len(m)

getSessionIds(m) == MapKeys(m)

\* res.write(frame) that does not throw: the frame reaches the stream unless
\* the response has already been ended.
ResWrite(str, s, frame) ==
    IF ended[s] THEN str ELSE [str EXCEPT ![s] = Append(@, frame)]

\* Event writers that drop the event, and that write it twice.
WriteChunksNone(str, s, ev, n) == str

WriteChunksTwice(str, s, ev, n) ==
    IF n = 2 THEN ResWrite(ResWrite(str, s, ev), s, ev) ELSE str

\* An event written as two chunks (the "event:" line, then the "data:" line):
\* n of the two res.write calls returned. The stream records whole frames; a
\* lone "event:" line is no frame.
WriteChunks(str, s, ev, n) ==
    IF n = 2 THEN ResWrite(str, s, ev) ELSE str

\* What the last step did: the operation, its arguments and what it returned.
\* failed: the responses whose write throws (an input of broadcast);
\* written: the responses a whole frame was written to, in order;
\* disconnects: the ids removeConnection was called with, in order;
\* threw: an exception left the operation; chunks: res.write calls that returned.
NoOp == [op |-> "none", id |-> NoId, data |-> "json", ret |-> FALSE,
         failed |-> {}, written |-> << >>, disconnects |-> << >>,
         threw |-> FALSE, chunks |-> 0, count |-> 0, ids |-> << >>]

\* JSON.stringify(data) throws on a cyclic value.
StringifyThrows(data) == data = "cyclic"

Result(m, str) ==
    [conns |-> m, stream |-> str, ret |-> FALSE, threw |-> FALSE,
     written |-> << >>, disconnects |-> << >>, chunks |-> 0]

\* sendToSession without its try/catch: the exception leaves the method.
sendToSessionNoCatch(m, str, id, data, nOk) ==
    LET res == MapGet(m, id)
        n   == IF nOk >= 1 /\ StringifyThrows(data) THEN 1 ELSE nOk
    IN  IF res = NoRes
        THEN Result(m, str)
        ELSE [Result(m, WriteChunks(str, res, "message", n)) EXCEPT
                 !.ret = (n = 2), !.threw = (n < 2), !.chunks = n,
                 !.written = IF n = 2 THEN <<res>> ELSE << >>]

\* sendToSession(sessionId, event, data), lines 31-45. nOk is the number of
\* res.write calls that return before one throws (2: none throws).
sendToSession(m, str, id, data, nOk) ==
    LET res == MapGet(m, id)
        \* the second write is reached only if JSON.stringify returned
        n   == IF nOk >= 1 /\ StringifyThrows(data) THEN 1 ELSE nOk
    IN  IF res = NoRes
        THEN Result(m, str)
        ELSE IF n = 2
        THEN [Result(m, WriteChunks(str, res, "message", 2)) EXCEPT
                 !.ret = TRUE, !.chunks = 2, !.written = <<res>>]
        ELSE \* catch: removeConnection, return false
             [Result(removeConnection(m, id), WriteChunks(str, res, "message", n)) EXCEPT
                 !.ret = FALSE, !.chunks = n, !.disconnects = <<id>>]

\* The forEach of broadcast, lines 52-59, from position i of the live map.
\* F: the responses whose write throws. Deleting the entry being visited
\* moves the following entry to position i.
RECURSIVE ForEachWrite(_, _, _)
ForEachWrite(acc, i, F) ==
    IF i > Len(acc.conns) THEN acc
    ELSE LET e == acc.conns[i]
         IN  IF e.res \in F
             THEN ForEachWrite([acc EXCEPT !.conns = removeConnection(@, e.id),
                                           !.disconnects = Append(@, e.id)], i, F)
             ELSE ForEachWrite([acc EXCEPT !.stream = ResWrite(@, e.res, "message"),
                                           !.written = Append(@, e.res),
                                           !.chunks = @ + 1], i + 1, F)

\* A forEach whose callback has no try/catch: the first write that throws
\* ends the iteration and the exception leaves broadcast.
RECURSIVE ForEachWriteAbort(_, _, _)
ForEachWriteAbort(acc, i, F) ==
    IF i > Len(acc.conns) THEN acc
    ELSE LET e == acc.conns[i]
         IN  IF e.res \in F
             THEN [acc EXCEPT !.threw = TRUE]
             ELSE ForEachWriteAbort([acc EXCEPT !.stream = ResWrite(@, e.res, "message"),
                                                !.written = Append(@, e.res),
                                                !.chunks = @ + 1], i + 1, F)

broadcastAbort(m, str, data, F) ==
    IF StringifyThrows(data)
    THEN [Result(m, str) EXCEPT !.threw = TRUE]
    ELSE ForEachWriteAbort(Result(m, str), 1, F)

\* broadcast(event, data), lines 50-60.
broadcast(m, str, data, F) ==
    IF StringifyThrows(data)
    THEN [Result(m, str) EXCEPT !.threw = TRUE]
    ELSE ForEachWrite(Result(m, str), 1, F)

\* The triggers that run cleanup().
CleanupOps == {"close", "error", "heartbeat-failed", "timeout"}

\* -------------------------------------------------------------- sseHandler
\* randomUUID(): a version-4 UUID, taken as a value not returned before.
randomUUIDRepeating(used) == UUIDs

randomUUID(used) == UUIDs \ used

\* Bound of the model: at most MaxFrames frames other than "connected" are
\* written in a run.
RECURSIVE LaterFrames(_, _)
LaterFrames(str, S) ==
    IF S = {} THEN 0
    ELSE LET s == CHOOSE x \in S : TRUE
         IN  Len(SelectSeq(str[s], LAMBDA f : f # "connected"))
             + LaterFrames(str, S \ {s})

WithinFrames(str) == LaterFrames(str, Sessions) <= MaxFrames

\* A cleanup that leaves the heartbeat ticker scheduled.
cleanupKeepingTicker(s, trigger, chunks) ==
    /\ heartbeatInterval' = heartbeatInterval
    /\ connections' = removeConnection(connections, sessionId[s])
    /\ ended' = [ended EXCEPT ![s] = TRUE]
    /\ cleanupCalls' = [cleanupCalls EXCEPT ![s] = @ + 1]
    /\ lastOp' = [NoOp EXCEPT !.op = trigger, !.id = sessionId[s],
                              !.chunks = chunks, !.disconnects = <<sessionId[s]>>]

\* cleanup(), lines 141-150: clearInterval, removeConnection, res.end()
\* (an exception of res.end() is swallowed).
cleanup(s, trigger, chunks) ==
    /\ heartbeatInterval' = [heartbeatInterval EXCEPT ![s] = FALSE]
    /\ connections' = removeConnection(connections, sessionId[s])
    /\ ended' = [ended EXCEPT ![s] = TRUE]
    /\ cleanupCalls' = [cleanupCalls EXCEPT ![s] = @ + 1]
    /\ lastOp' = [NoOp EXCEPT !.op = trigger, !.id = sessionId[s],
                              !.chunks = chunks, !.disconnects = <<sessionId[s]>>]

\* sseHandler(req, res), lines 87-185, for the request of session s.
\* nOk: the number of the two initial res.write calls (lines 124-125) that
\* return; a throwing one leaves the handler before addConnection.
SseHandler(s) ==
    /\ pc[s] = "new"
    /\ \E id \in randomUUID(issued), nOk \in 0..2 :
        /\ issued' = issued \cup {id}
        /\ sessionId' = [sessionId EXCEPT ![s] = id]
        /\ mcpSessionId' = [mcpSessionId EXCEPT ![s] = id]
        /\ connectionData' = [connectionData EXCEPT ![s] = IF nOk = 2 THEN id ELSE NoId]
        /\ stream' = WriteChunks(stream, s, "connected", nOk)
        /\ IF nOk = 2
           THEN /\ pc' = [pc EXCEPT ![s] = "open"]
                /\ connections' = addConnection(connections, id, s)
                /\ heartbeatInterval' = [heartbeatInterval EXCEPT ![s] = TRUE]
                /\ autoDisconnectTimeout' = [autoDisconnectTimeout EXCEPT ![s] = TRUE]
                /\ lastOp' = [NoOp EXCEPT !.op = "addConnection", !.id = id,
                                          !.chunks = 2]
           ELSE /\ pc' = [pc EXCEPT ![s] = "failed"]
                /\ lastOp' = [NoOp EXCEPT !.op = "sseHandler", !.id = id,
                                          !.threw = TRUE, !.chunks = nOk]
                /\ UNCHANGED <<connections, heartbeatInterval, autoDisconnectTimeout>>
    /\ UNCHANGED <<ended, closeEmitted, errorEmitted, cleanupCalls>>

\* The setInterval callback, lines 131-138.
HeartbeatTick(s) ==
    /\ heartbeatInterval[s]
    /\ \/ /\ stream' = ResWrite(stream, s, "heartbeat")
          /\ WithinFrames(stream')
          /\ lastOp' = [NoOp EXCEPT !.op = "heartbeat", !.id = sessionId[s],
                                    !.chunks = 1, !.written = <<s>>]
          /\ UNCHANGED <<connections, heartbeatInterval, ended, cleanupCalls>>
       \/ /\ cleanup(s, "heartbeat-failed", 0)
          /\ UNCHANGED stream
    /\ UNCHANGED <<issued, pc, sessionId, autoDisconnectTimeout, closeEmitted,
                   errorEmitted>>

\* req 'close': both listeners, lines 153-156 and 182-184.
ReqClose(s) ==
    /\ pc[s] = "open"
    /\ ~closeEmitted[s]
    /\ closeEmitted' = [closeEmitted EXCEPT ![s] = TRUE]
    /\ cleanup(s, "close", 0)
    /\ autoDisconnectTimeout' = [autoDisconnectTimeout EXCEPT ![s] = FALSE]
    /\ UNCHANGED <<issued, pc, sessionId, errorEmitted, stream>>

\* req 'error', lines 158-161.
ReqError(s) ==
    /\ pc[s] = "open"
    /\ ~closeEmitted[s]
    /\ ~errorEmitted[s]
    /\ errorEmitted' = [errorEmitted EXCEPT ![s] = TRUE]
    /\ cleanup(s, "error", 0)
    /\ UNCHANGED <<issued, pc, sessionId, closeEmitted, autoDisconnectTimeout, stream>>

\* A lifetime timer that writes session-expired and does not tear down.
AutoDisconnectWithoutCleanup(s) ==
    /\ autoDisconnectTimeout[s]
    /\ autoDisconnectTimeout' = [autoDisconnectTimeout EXCEPT ![s] = FALSE]
    /\ \E nOk \in 0..2 :
        /\ stream' = WriteChunks(stream, s, "session-expired", nOk)
        /\ WithinFrames(stream')
        /\ lastOp' = [NoOp EXCEPT !.op = "timeout", !.id = sessionId[s], !.chunks = nOk]
    /\ UNCHANGED <<issued, pc, sessionId, closeEmitted, errorEmitted, connections,
                   heartbeatInterval, ended, cleanupCalls>>

\* The setTimeout callback, lines 164-179: the session-expired event is
\* attempted (nOk of its two writes return), then cleanup().
AutoDisconnectTimeout(s) ==
    /\ autoDisconnectTimeout[s]
    /\ autoDisconnectTimeout' = [autoDisconnectTimeout EXCEPT ![s] = FALSE]
    /\ \E nOk \in 0..2 :
        /\ stream' = WriteChunks(stream, s, "session-expired", nOk)
        /\ WithinFrames(stream')
        /\ cleanup(s, "timeout", nOk)
    /\ UNCHANGED <<issued, pc, sessionId, closeEmitted, errorEmitted>>

\* A caller of sseManager.sendToSession / sendMcpEvent, lines 190-196.
SendMcpEvent ==
    /\ \E id \in UUIDs, data \in Payloads, nOk \in 0..2 :
        LET r == sendToSession(connections, stream, id, data, nOk)
        IN  /\ connections' = r.conns
            /\ stream' = r.stream
            /\ WithinFrames(stream')
            /\ lastOp' = [NoOp EXCEPT !.op = "sendToSession", !.id = id,
                                      !.data = data, !.ret = r.ret,
                                      !.written = r.written,
                                      !.disconnects = r.disconnects,
                                      !.threw = r.threw, !.chunks = r.chunks]
    /\ UNCHANGED <<issued, pc, sessionId, heartbeatInterval, autoDisconnectTimeout,
                   ended, closeEmitted, errorEmitted, cleanupCalls>>

\* A caller of sseManager.broadcast / broadcastMcpEvent, lines 201-206.
BroadcastMcpEvent ==
    /\ \E data \in Payloads, F \in SUBSET Registered(connections) :
        LET r == broadcast(connections, stream, data, F)
        IN  /\ connections' = r.conns
            /\ stream' = r.stream
            /\ WithinFrames(stream')
            /\ lastOp' = [NoOp EXCEPT !.op = "broadcast", !.data = data,
                                      !.failed = F, !.written = r.written,
                                      !.disconnects = r.disconnects,
                                      !.threw = r.threw, !.chunks = r.chunks]
    /\ UNCHANGED <<issued, pc, sessionId, heartbeatInterval, autoDisconnectTimeout,
                   ended, closeEmitted, errorEmitted, cleanupCalls>>

\* A caller of sseManager.removeConnection with any id, lines 23-26.
RemoveConnection ==
    /\ \E id \in UUIDs :
        /\ connections' = removeConnection(connections, id)
        /\ lastOp' = [NoOp EXCEPT !.op = "removeConnection", !.id = id,
                                  !.disconnects = <<id>>]
    /\ UNCHANGED <<issued, pc, sessionId, heartbeatInterval, autoDisconnectTimeout,
                   ended, closeEmitted, errorEmitted, cleanupCalls, stream>>

\* getSseStats(), lines 211-216.
GetSseStats ==
    /\ lastOp' = [NoOp EXCEPT !.op = "getSseStats",
                              !.count = getConnectionCount(connections),
                              !.ids = getSessionIds(connections)]
    /\ UNCHANGED <<connections, issued, pc, sessionId, heartbeatInterval,
                   autoDisconnectTimeout, ended, closeEmitted, errorEmitted,
                   cleanupCalls, stream>>

\* ---------------------------------------------------- peers that stop reading
VARIABLES
    stalled        \* per session: the peer has stopped reading its stream

\* The peer of an open session stops reading. From then on res.write() queues
\* the chunk in the response's buffer and returns false: the write neither
\* completes nor throws, and the callers (lines 35-36, 54) ignore the value.
PeerStalls(s) ==
    /\ pc[s] = "open"
    /\ ~ended[s]
    /\ ~stalled[s]
    /\ stalled' = [stalled EXCEPT ![s] = TRUE]
    /\ lastOp' = [NoOp EXCEPT !.op = "peer-stalls", !.id = sessionId[s]]
    /\ UNCHANGED <<connections, issued, pc, sessionId, heartbeatInterval,
                   autoDisconnectTimeout, ended, closeEmitted, errorEmitted,
                   cleanupCalls, stream>>

\* ===================================================================
\* Authentication: xsuaa-config.ts, jwt-validator.ts, auth-middleware
\* ===================================================================
VARIABLES
    env,           \* the process environment: AUTH_ENABLED and the bound XSUAA service
    now,           \* wall-clock time (seconds) read by jwt.verify
    req,           \* the request: its Authorization header and req.auth
    route,         \* the middleware stages of the route, in order
    outcomes,      \* per completed stage: next() calls, responses, verifier calls
    identifiedBefore  \* an earlier request left the chain with an identity attached

authVars == <<env, now, req, route, outcomes, identifiedBefore>>

Undefined == "undefined"

\* Strings the code splits, lower-cases, concatenates or prefix-tests are
\* sequences of characters.
AppName == <<"a", "p">>
SbPrefix == <<"s", "b", "-">>
Dot == <<".">>

ScopeRead == <<"r">>
ScopeAdmin == <<"w">>

NullConfig == [isNull |-> TRUE]

\* XsuaaCredentials, xsuaa-config.ts lines 6-17 (the fields the code reads).
Credentials(key) ==
    [isNull |-> FALSE, verificationkey |-> key, url |-> "https://uaa",
     xsappname |-> AppName]

\* AUTH_ENABLED (line 23) and what getXsuaaCredentials() (lines 29-63) finds:
\* the credentials of the bound service, or null.
Envs ==
    [authEnabled : BOOLEAN,
     credentials : {NullConfig, Credentials("KEY"), Credentials("")}]

getXsuaaConfigIgnoringFlag(e) == e.credentials

\* getXsuaaConfig(), xsuaa-config.ts lines 77-84.
getXsuaaConfig(e) == IF ~e.authEnabled THEN NullConfig ELSE e.credentials

\* --- credentials: a token string (one character) and what it decodes to.
\* wellFormed: three base64url parts holding JSON; alg: the header's alg;
\* signedBy: the key whose signature the token carries.
IssuerOf(cfg) == <<cfg.url, "/oauth/token">>


Tokens ==
    [g |-> [wellFormed |-> TRUE, alg |-> "RS256", signedBy |-> "KEY",
            payload |-> [sub |-> "sub-g", user_id |-> "alice", client_id |-> "cl-g",
                         cid |-> "cid-g", grant_type |-> "password", exp |-> 2000,
                         iss |-> <<"https://uaa", "/oauth/token">>,
                         aud |-> <<AppName>>,
                         scope |-> <<AppName \o Dot \o ScopeRead>>]],
     c |-> [wellFormed |-> TRUE, alg |-> "RS256", signedBy |-> "KEY",
            payload |-> [sub |-> "sub-c", client_id |-> "", cid |-> "cid-c",
                         grant_type |-> "client_credentials", exp |-> 971,
                         iss |-> <<"https://uaa", "/oauth/token">>,
                         aud |-> <<<<"o">>, SbPrefix \o AppName>>]],
     p |-> [wellFormed |-> TRUE, alg |-> "RS256", signedBy |-> "KEY",
            payload |-> [sub |-> "sub-p", user_id |-> "", client_id |-> "cl-p",
                         grant_type |-> "password", exp |-> 2000,
                         iss |-> <<"https://uaa", "/oauth/token">>,
                         aud |-> <<AppName \o <<"!", "x">>>>,
                         scope |-> <<ScopeAdmin, ScopeRead>>]],
     e |-> [wellFormed |-> TRUE, alg |-> "RS256", signedBy |-> "KEY",
            payload |-> [sub |-> "sub-e", client_id |-> "cl-e",
                         grant_type |-> "password", exp |-> 970,
                         iss |-> <<"https://uaa", "/oauth/token">>,
                         aud |-> <<AppName>>, scope |-> <<ScopeRead>>]],
     s |-> [wellFormed |-> TRUE, alg |-> "RS256", signedBy |-> "EVIL",
            payload |-> [sub |-> "sub-s", client_id |-> "cl-s",
                         grant_type |-> "password", exp |-> 2000,
                         iss |-> <<"https://uaa", "/oauth/token">>,
                         aud |-> <<AppName>>, scope |-> <<ScopeAdmin>>]],
     n |-> [wellFormed |-> TRUE, alg |-> "none", signedBy |-> "",
            payload |-> [sub |-> "sub-n", client_id |-> "cl-n",
                         grant_type |-> "password", exp |-> 2000,
                         iss |-> <<"https://uaa", "/oauth/token">>,
                         aud |-> <<AppName>>, scope |-> <<ScopeAdmin>>]],
     h |-> [wellFormed |-> TRUE, alg |-> "HS256", signedBy |-> "KEY",
            payload |-> [sub |-> "sub-h", client_id |-> "cl-h",
                         grant_type |-> "password", exp |-> 2000,
                         iss |-> <<"https://uaa", "/oauth/token">>,
                         aud |-> <<AppName>>, scope |-> <<ScopeAdmin>>]],
     i |-> [wellFormed |-> TRUE, alg |-> "RS256", signedBy |-> "KEY",
            payload |-> [sub |-> "sub-i", client_id |-> "cl-i",
                         grant_type |-> "password", exp |-> 2000,
                         iss |-> <<"https://evil", "/oauth/token">>,
                         aud |-> <<AppName>>, scope |-> <<ScopeRead>>]],
     a |-> [wellFormed |-> TRUE, alg |-> "RS256", signedBy |-> "KEY",
            payload |-> [sub |-> "sub-a", client_id |-> "cl-a",
                         grant_type |-> "password", exp |-> 2000,
                         iss |-> <<"https://uaa", "/oauth/token">>,
                         aud |-> <<<<"x">> \o AppName, <<"o">>>>,
                         scope |-> <<ScopeRead>>]],
     u |-> [wellFormed |-> TRUE, alg |-> "RS256", signedBy |-> "KEY",
            payload |-> [sub |-> "sub-u", client_id |-> "cl-u",
                         grant_type |-> "password", exp |-> 2000,
                         iss |-> <<"https://uaa", "/oauth/token">>,
                         scope |-> <<ScopeRead>>]],
     k |-> [wellFormed |-> TRUE, alg |-> "RS256", signedBy |-> "EVIL",
            payload |-> [sub |-> "sub-k", client_id |-> "cl-k",
                         grant_type |-> "password", exp |-> 900,
                         iss |-> <<"https://uaa", "/oauth/token">>,
                         aud |-> <<AppName>>, scope |-> <<ScopeRead>>]],
     b |-> [wellFormed |-> TRUE, alg |-> "RS256", signedBy |-> "EVIL",
            payload |-> [sub |-> "sub-b", client_id |-> "cl-b",
                         grant_type |-> "password", exp |-> 2000,
                         iss |-> <<"https://uaa", "/oauth/token">>,
                         aud |-> <<<<"o">>>>, scope |-> <<ScopeRead>>]],
     d |-> [wellFormed |-> TRUE, alg |-> "RS256", signedBy |-> "KEY",
            payload |-> [sub |-> "sub-d", client_id |-> "cl-d",
                         grant_type |-> "password", exp |-> 900,
                         iss |-> <<"https://uaa", "/oauth/token">>,
                         aud |-> <<<<"o">>>>, scope |-> <<ScopeRead>>]],
     z |-> [wellFormed |-> TRUE, alg |-> "RS256", signedBy |-> "KEY",
            payload |-> [sub |-> "sub-z", client_id |-> "cl-z",
                         grant_type |-> "password", exp |-> 2000,
                         iss |-> <<"https://uaa", "/oauth/token">>,
                         aud |-> << >>, scope |-> <<ScopeRead>>]],
     j |-> [wellFormed |-> TRUE, alg |-> "RS256", signedBy |-> "KEY",
            payload |-> [sub |-> "sub-j", client_id |-> "cl-j",
                         grant_type |-> "password", exp |-> 2000,
                         iss |-> <<"https://uaa">>,
                         aud |-> <<<<"o">>>>, scope |-> <<ScopeRead>>]],
     t |-> [wellFormed |-> TRUE, alg |-> "RS256", signedBy |-> "KEY",
            payload |-> [sub |-> "sub-t", client_id |-> "cl-t",
                         grant_type |-> "password",
                         iss |-> <<"https://uaa", "/oauth/token">>,
                         aud |-> <<SbPrefix \o AppName>>, scope |-> <<ScopeRead>>]],
     m |-> [wellFormed |-> FALSE, alg |-> "", signedBy |-> "", payload |-> [sub |-> ""]]]

TokenChars == DOMAIN Tokens

\* A token string the table does not list is not a JWT.
DecodeToken(token) ==
    IF Len(token) = 1 /\ token[1] \in TokenChars THEN Tokens[token[1]] ELSE Tokens.m

Get(r, f) == IF f \in DOMAIN r THEN r[f] ELSE Undefined

\* --- jsonwebtoken errors
JsonWebTokenError(msg) == [name |-> "JsonWebTokenError", message |-> msg]
TokenExpiredError == [name |-> "TokenExpiredError", message |-> "jwt expired"]

ClockTolerance == 30

\* A verification that accepts whatever algorithm the token header declares.
JwtVerifyAnyAlgorithm(token, key, issuer, t) ==
    LET d == DecodeToken(token)
    IN  IF ~d.wellFormed
        THEN [ok |-> FALSE, error |-> JsonWebTokenError("jwt malformed")]
        ELSE IF d.alg # "none" /\ d.signedBy # key
        THEN [ok |-> FALSE, error |-> JsonWebTokenError("invalid signature")]
        ELSE IF "exp" \in DOMAIN d.payload /\ t >= d.payload.exp + ClockTolerance
        THEN [ok |-> FALSE, error |-> TokenExpiredError]
        ELSE IF Get(d.payload, "iss") # issuer
        THEN [ok |-> FALSE, error |-> JsonWebTokenError("jwt issuer invalid")]
        ELSE [ok |-> TRUE, decoded |-> d.payload]

\* A verification without clock tolerance.
JwtVerifyNoTolerance(token, key, issuer, t) ==
    LET d == DecodeToken(token)
    IN  IF ~d.wellFormed
        THEN [ok |-> FALSE, error |-> JsonWebTokenError("jwt malformed")]
        ELSE IF d.alg # "RS256"
        THEN [ok |-> FALSE, error |-> JsonWebTokenError("invalid algorithm")]
        ELSE IF d.signedBy # key
        THEN [ok |-> FALSE, error |-> JsonWebTokenError("invalid signature")]
        ELSE IF "exp" \in DOMAIN d.payload /\ t >= d.payload.exp
        THEN [ok |-> FALSE, error |-> TokenExpiredError]
        ELSE IF Get(d.payload, "iss") # issuer
        THEN [ok |-> FALSE, error |-> JsonWebTokenError("jwt issuer invalid")]
        ELSE [ok |-> TRUE, decoded |-> d.payload]

\* jwt.verify(token, pemKey, {algorithms: ['RS256'], issuer, clockTolerance}),
\* called at lines 61-65: the checks of jsonwebtoken in their order.
JwtVerify(token, key, issuer, t) ==
    LET d == DecodeToken(token)
    IN  IF ~d.wellFormed
        THEN [ok |-> FALSE, error |-> JsonWebTokenError("jwt malformed")]
        ELSE IF d.alg # "RS256"
        THEN [ok |-> FALSE, error |-> JsonWebTokenError("invalid algorithm")]
        ELSE IF d.signedBy # key
        THEN [ok |-> FALSE, error |-> JsonWebTokenError("invalid signature")]
        ELSE IF "exp" \in DOMAIN d.payload /\ t >= d.payload.exp + ClockTolerance
        THEN [ok |-> FALSE, error |-> TokenExpiredError]
        ELSE IF Get(d.payload, "iss") # issuer
        THEN [ok |-> FALSE, error |-> JsonWebTokenError("jwt issuer invalid")]
        ELSE [ok |-> TRUE, decoded |-> d.payload]

\* A test for a suffix instead of a prefix.
EndsWith(a, b) == Len(a) >= Len(b) /\ SubSeq(a, Len(a) - Len(b) + 1, Len(a)) = b

StartsWith(a, b) == Len(a) >= Len(b) /\ SubSeq(a, 1, Len(b)) = b

\* An audience test that accepts only the application identifier itself.
hasValidAudienceExact(decoded, expectedAudience) ==
    /\ "aud" \in DOMAIN decoded
    /\ \E k \in 1..Len(decoded.aud) : decoded.aud[k] = expectedAudience

\* decoded.aud?.some(...), lines 69-75.
hasValidAudience(decoded, expectedAudience) ==
    /\ "aud" \in DOMAIN decoded
    /\ \E k \in 1..Len(decoded.aud) :
          \/ decoded.aud[k] = expectedAudience
          \/ StartsWith(decoded.aud[k], expectedAudience)
          \/ decoded.aud[k] = SbPrefix \o expectedAudience

NoPayload == [sub |-> Undefined]

Invalid(msg) == [valid |-> FALSE, hasPayload |-> FALSE, payload |-> NoPayload,
                 error |-> msg]

\* A validation without the check for a missing verification key.
validateJwtTokenNoKeyCheck(token, cfg, t) ==
    LET r == JwtVerify(token, cfg.verificationkey, IssuerOf(cfg), t)
    IN  IF ~r.ok
        THEN IF r.error.name = "TokenExpiredError"
             THEN Invalid(<<"Token has expired">>)
             ELSE Invalid(<<"Invalid token: ", r.error.message>>)
        ELSE IF ~hasValidAudience(r.decoded, cfg.xsappname)
        THEN Invalid(<<"Invalid audience. Expected: ">> \o cfg.xsappname
                     \o <<" or ">> \o SbPrefix \o cfg.xsappname)
        ELSE [valid |-> TRUE, hasPayload |-> TRUE, payload |-> r.decoded,
              error |-> << >>]

\* validateJwtToken(token, xsuaaConfig), lines 40-108. Messages are sequences
\* of the pieces the template strings join.
validateJwtToken(token, cfg, t) ==
    IF cfg.verificationkey = ""
    THEN Invalid(<<"XSUAA verification key not found">>)
    ELSE LET r == JwtVerify(token, cfg.verificationkey, IssuerOf(cfg), t)
         IN  IF ~r.ok
             THEN IF r.error.name = "TokenExpiredError"
                  THEN Invalid(<<"Token has expired">>)
                  ELSE IF r.error.name = "JsonWebTokenError"
                  THEN Invalid(<<"Invalid token: ", r.error.message>>)
                  ELSE Invalid(<<r.error.message>>)
             ELSE IF ~hasValidAudience(r.decoded, cfg.xsappname)
             THEN Invalid(<<"Invalid audience. Expected: ">> \o cfg.xsappname
                          \o <<" or ">> \o SbPrefix \o cfg.xsappname)
             ELSE [valid |-> TRUE, hasPayload |-> TRUE, payload |-> r.decoded,
                   error |-> << >>]

\* --- extractTokenFromHeader, lines 116-128
Space == " "

\* String.prototype.split(' ')
RECURSIVE Split(_)
Split(str) ==
    IF str = << >> THEN << << >> >>
    ELSE LET rest == Split(Tail(str))
         IN  IF Head(str) = Space
             THEN << << >> >> \o rest
             ELSE << <<Head(str)>> \o Head(rest) >> \o Tail(rest)

LowerMap == [B |-> "b", E |-> "e", A |-> "a", R |-> "r", S |-> "s", I |-> "i", C |-> "c"]

toLowerCase(str) ==
    [k \in 1..Len(str) |-> IF str[k] \in DOMAIN LowerMap THEN LowerMap[str[k]] ELSE str[k]]

Null == [isNull |-> TRUE, val |-> << >>]
Str(v) == [isNull |-> FALSE, val |-> v]

\* An absent header is undefined.
NoHeader == [present |-> FALSE, val |-> << >>]
Header(v) == [present |-> TRUE, val |-> v]

\* An extraction that does not look at the scheme.
extractTokenAnyScheme(authHeader) ==
    IF ~authHeader.present \/ authHeader.val = << >>
    THEN Null
    ELSE LET parts == Split(authHeader.val)
         IN  IF Len(parts) # 2 THEN Null ELSE Str(parts[2])

extractTokenFromHeader(authHeader) ==
    IF ~authHeader.present \/ authHeader.val = << >>
    THEN Null
    ELSE LET parts == Split(authHeader.val)
         IN  IF Len(parts) # 2 \/ toLowerCase(parts[1]) # <<"b", "e", "a", "r", "e", "r">>
             THEN Null
             ELSE Str(parts[2])

\* a || b on strings: b when a is undefined or empty.
OrElse(a, b) == IF a \in {Undefined, ""} THEN b ELSE a

\* getUserInfo without the fallbacks to sub and cid.
getUserInfoNoFallback(payload) ==
    [userId    |-> Get(payload, "user_id"),
     userName  |-> Get(payload, "user_name"),
     email     |-> Get(payload, "email"),
     clientId  |-> Get(payload, "client_id"),
     scopes    |-> IF "scope" \in DOMAIN payload THEN payload.scope ELSE << >>,
     grantType |-> Get(payload, "grant_type")]

\* getUserInfo(payload), lines 160-169.

getUserInfo(payload) ==
    [userId    |-> OrElse(Get(payload, "user_id"), Get(payload, "sub")),
     userName  |-> Get(payload, "user_name"),
     email     |-> Get(payload, "email"),
     clientId  |-> OrElse(Get(payload, "client_id"), Get(payload, "cid")),
     scopes    |-> IF "scope" \in DOMAIN payload THEN payload.scope ELSE << >>,
     grantType |-> Get(payload, "grant_type")]

\* A scope test that looks for the bare scope name only.
hasRequiredScopeBareOnly(payload, requiredScope, xsappname) ==
    IF "scope" \notin DOMAIN payload \/ Len(payload.scope) = 0
    THEN FALSE
    ELSE requiredScope \in SeqRange(payload.scope)

\* --- hasRequiredScope, lines 138-152
hasRequiredScope(payload, requiredScope, xsappname) ==
    IF "scope" \notin DOMAIN payload \/ Len(payload.scope) = 0
    THEN FALSE
    ELSE \/ requiredScope \in SeqRange(payload.scope)
         \/ (xsappname \o Dot \o requiredScope) \in SeqRange(payload.scope)

VARIABLES
    scopeCheck     \* the last call, if of hasRequiredScope: arguments and return value

NoScopeCheck ==
    [payload |-> [sub |-> Undefined], requiredScope |-> << >>, xsappname |-> << >>,
     ret |-> FALSE, called |-> FALSE]

VARIABLES
    gateCheck      \* the last call, if of a requireScope stage: arguments and decision

NoGateCheck ==
    [payload |-> [sub |-> Undefined], requiredScopes |-> << >>, xsappname |-> << >>,
     allowed |-> FALSE, called |-> FALSE]

\* Scope lists of a TokenPayload; scope may be absent.
ScopeClaims ==
    {<< >>, <<ScopeRead>>, <<ScopeAdmin>>, <<AppName \o Dot \o ScopeRead>>,
     <<ScopeAdmin, AppName \o Dot \o ScopeRead>>, <<AppName \o ScopeRead>>,
     <<<<"o">> \o Dot \o ScopeRead>>, <<Dot \o ScopeAdmin>>,
     <<ScopeRead \o Dot \o AppName>>}

ScopePayloads ==
    {[sub |-> "sub"]} \cup {[sub |-> "sub", scope |-> sc] : sc \in ScopeClaims}

RequiredScopes == {ScopeRead, ScopeAdmin, AppName \o Dot \o ScopeRead, << >>}

AppNames == {AppName, <<"o">>, << >>}

\* A caller of hasRequiredScope(payload, requiredScope, xsappname).
HasRequiredScope ==
    \E payload \in ScopePayloads, requiredScope \in RequiredScopes,
       xsappname \in AppNames :
        /\ scopeCheck' = [payload |-> payload, requiredScope |-> requiredScope,
                          xsappname |-> xsappname,
                          ret |-> hasRequiredScope(payload, requiredScope, xsappname),
                          called |-> TRUE]
        /\ gateCheck' = NoGateCheck

\* --- auth-middleware
NoAuth == [present |-> FALSE]

Response(status, body) == [status |-> status, body |-> body]

Continue(auth, calls) ==
    [auth |-> auth, next |-> 1, responses |-> << >>, verifyCalls |-> calls]

\* A rejection that also calls next().
RejectAndContinue(auth, status, body, calls) ==
    [auth |-> auth, next |-> 1, responses |-> <<Response(status, body)>>,
     verifyCalls |-> calls]

Reject(auth, status, body, calls) ==
    [auth |-> auth, next |-> 0, responses |-> <<Response(status, body)>>,
     verifyCalls |-> calls]

Identity(token, payload) ==
    [present |-> TRUE, token |-> token, payload |-> payload,
     user |-> getUserInfo(payload)]

\* authMiddleware, lines 35-86.
authMiddleware(cfg, r, t) ==
    IF cfg.isNull
    THEN Continue(r.auth, 0)
    ELSE LET token == extractTokenFromHeader(r.authorization)
         IN  IF token.isNull \/ token.val = << >>
             THEN Reject(r.auth, 401,
                         [error |-> "Unauthorized",
                          message |-> <<"Missing or invalid Authorization header. Expected: Bearer <token>">>],
                         0)
             ELSE LET v == validateJwtToken(token.val, cfg, t)
                  IN  IF ~v.valid \/ ~v.hasPayload
                      THEN Reject(r.auth, 401,
                                  [error |-> "Unauthorized",
                                   message |-> IF v.error = << >> THEN <<"Invalid token">>
                                               ELSE v.error],
                                  1)
                      ELSE Continue(Identity(token.val, v.payload), 1)

\* An optional mode that rejects like required mode.
optionalAuthMiddlewareRejecting(cfg, r, t) == authMiddleware(cfg, r, t)

\* optionalAuthMiddleware, lines 93-127.
optionalAuthMiddleware(cfg, r, t) ==
    IF cfg.isNull
    THEN Continue(r.auth, 0)
    ELSE LET token == extractTokenFromHeader(r.authorization)
         IN  IF token.isNull \/ token.val = << >>
             THEN Continue(r.auth, 0)
             ELSE LET v == validateJwtToken(token.val, cfg, t)
                  IN  IF v.valid /\ v.hasPayload
                      THEN Continue(Identity(token.val, v.payload), 1)
                      ELSE Continue(r.auth, 1)

\* requiredScopes.join(' or ')
RECURSIVE JoinOr(_)
JoinOr(list) ==
    IF list = << >> THEN << >>
    ELSE IF Len(list) = 1 THEN Head(list)
    ELSE Head(list) \o <<" or ">> \o JoinOr(Tail(list))

\* A scope gate that asks for every required scope instead of any.
requireScopeEvery(requiredScopes, cfg, r) ==
    IF ~r.auth.present
    THEN Reject(r.auth, 401,
                [error |-> "Unauthorized", message |-> <<"Authentication required">>], 0)
    ELSE LET userScopes == r.auth.user.scopes
             xsappname  == IF cfg.isNull THEN << >> ELSE cfg.xsappname
             has == \A k \in 1..Len(requiredScopes) :
                       \/ requiredScopes[k] \in SeqRange(userScopes)
                       \/ (xsappname \o Dot \o requiredScopes[k]) \in SeqRange(userScopes)
         IN  IF ~has
             THEN Reject(r.auth, 403,
                         [error |-> "Forbidden",
                          message |-> <<"Required scope: ">> \o JoinOr(requiredScopes),
                          userScopes |-> userScopes], 0)
             ELSE Continue(r.auth, 0)

\* A scope gate that looks for the bare scope names only.
requireScopeBareOnly(requiredScopes, cfg, r) ==
    IF ~r.auth.present
    THEN Reject(r.auth, 401,
                [error |-> "Unauthorized", message |-> <<"Authentication required">>], 0)
    ELSE LET userScopes == r.auth.user.scopes
             has == \E k \in 1..Len(requiredScopes) :
                       requiredScopes[k] \in SeqRange(userScopes)
         IN  IF ~has
             THEN Reject(r.auth, 403,
                         [error |-> "Forbidden",
                          message |-> <<"Required scope: ">> \o JoinOr(requiredScopes),
                          userScopes |-> userScopes], 0)
             ELSE Continue(r.auth, 0)

\* requireScope(...requiredScopes), lines 136-167.
requireScope(requiredScopes, cfg, r) ==
    IF ~r.auth.present
    THEN Reject(r.auth, 401,
                [error |-> "Unauthorized", message |-> <<"Authentication required">>], 0)
    ELSE LET userScopes == r.auth.user.scopes
             xsappname  == IF cfg.isNull THEN << >> ELSE cfg.xsappname
             has == \E k \in 1..Len(requiredScopes) :
                       \/ requiredScopes[k] \in SeqRange(userScopes)
                       \/ (xsappname \o Dot \o requiredScopes[k]) \in SeqRange(userScopes)
         IN  IF ~has
             THEN Reject(r.auth, 403,
                         [error |-> "Forbidden",
                          message |-> <<"Required scope: ">> \o JoinOr(requiredScopes),
                          userScopes |-> userScopes], 0)
             ELSE Continue(r.auth, 0)

\* Lists of required scopes handed to requireScope(...requiredScopes).
RequiredScopeLists ==
    {<< >>} \cup {<<a>> : a \in RequiredScopes}
    \cup {<<ScopeAdmin, ScopeRead>>, <<ScopeRead, AppName \o Dot \o ScopeRead>>}

\* A requireScope stage run on a request whose identity was derived from the
\* payload, with the application identifier of the bound service.
RequireScopeCall ==
    \E payload \in ScopePayloads, requiredScopes \in RequiredScopeLists,
       xsappname \in AppNames :
        LET cfg == [Credentials("KEY") EXCEPT !.xsappname = xsappname]
            r   == [authorization |-> NoHeader, auth |-> Identity(<<"g">>, payload)]
        IN  /\ gateCheck' = [payload |-> payload, requiredScopes |-> requiredScopes,
                             xsappname |-> xsappname,
                             allowed |-> requireScope(requiredScopes, cfg, r).next = 1,
                             called |-> TRUE]
            /\ scopeCheck' = NoScopeCheck

\* --- requests
Bearer == <<"B", "e", "a", "r", "e", "r">>

HeaderValues ==
    {Bearer \o <<Space, c>> : c \in TokenChars}
    \cup {<<"b", "e", "a", "r", "e", "r", Space, "g">>,
          <<"B", "E", "A", "R", "E", "R", Space, "c">>,
          <<"b", "E", "a", "R", "e", "R", Space, "p">>,
          Bearer \o <<Space>>,
          Bearer,
          Bearer \o <<"g">>,
          Bearer \o <<Space, Space, "g">>,
          Bearer \o <<Space, "g", Space, "p">>,
          Bearer \o <<Space, "g", Space>>,
          <<Space>> \o Bearer \o <<Space, "g">>,
          <<"B", "a", "s", "i", "c", Space, "x", "y", "z">>,
          <<"B", "a", "s", "i", "c", Space, "g">>,
          <<"g">>,
          <<Space>>,
          << >>}

Headers == {NoHeader} \cup {Header(v) : v \in HeaderValues}

ScopeLists == {<< >>, <<ScopeRead>>, <<ScopeAdmin>>, <<ScopeAdmin, ScopeRead>>}

Stage(mw, scopes) == [mw |-> mw, scopes |-> scopes]

\* The middleware chains of a route: index.ts lines 65 and 99 (authMiddleware
\* alone), and the documented uses of the other two.
Routes ==
    {<<Stage("authMiddleware", << >>)>>, <<Stage("optionalAuthMiddleware", << >>)>>}
    \cup {<<Stage("authMiddleware", << >>), Stage("requireScope", sc)>> : sc \in ScopeLists}
    \cup {<<Stage("optionalAuthMiddleware", << >>), Stage("requireScope", sc)>> : sc \in ScopeLists}

NowValues == {1000, 1001}

\* Express runs the next stage only if the previous one called next().
Alive ==
    /\ Len(outcomes) < Len(route)
    /\ \A k \in 1..Len(outcomes) : outcomes[k].next = 1

CurrentStage == route[Len(outcomes) + 1]

Apply(mw, r) ==
    /\ req' = [req EXCEPT !.auth = r.auth]
    /\ outcomes' = Append(outcomes, [mw |-> mw, next |-> r.next,
                                      responses |-> r.responses,
                                      verifyCalls |-> r.verifyCalls,
                                      authBefore |-> req.auth,
                                      authAfter |-> r.auth])
    /\ UNCHANGED <<env, now, route, identifiedBefore>>

AuthMiddleware ==
    /\ Alive
    /\ CurrentStage.mw = "authMiddleware"
    /\ Apply("authMiddleware", authMiddleware(getXsuaaConfig(env), req, now))

OptionalAuthMiddleware ==
    /\ Alive
    /\ CurrentStage.mw = "optionalAuthMiddleware"
    /\ Apply("optionalAuthMiddleware", optionalAuthMiddleware(getXsuaaConfig(env), req, now))

RequireScope ==
    /\ Alive
    /\ CurrentStage.mw = "requireScope"
    /\ Apply("requireScope", requireScope(CurrentStage.scopes, getXsuaaConfig(env), req))

\* A request object that inherits req.auth from the request before it.
NewRequestKeepingAuth ==
    /\ ~Alive
    /\ \E h \in Headers, rt \in Routes :
        /\ req' = [authorization |-> h, auth |-> req.auth]
        /\ route' = rt
    /\ outcomes' = << >>
    /\ identifiedBefore' = (identifiedBefore \/ req.auth.present)
    /\ UNCHANGED <<env, now>>

\* The next request arrives once the previous one has left the chain: Express
\* hands every request its own req object, on which auth is not set.
NewRequest ==
    /\ ~Alive
    /\ \E h \in Headers, rt \in Routes :
        /\ req' = [authorization |-> h, auth |-> NoAuth]
        /\ route' = rt
    /\ outcomes' = << >>
    /\ identifiedBefore' = (identifiedBefore \/ req.auth.present)
    /\ UNCHANGED <<env, now>>

Init ==
    /\ connections = << >>
    /\ issued = {}
    /\ pc = [s \in Sessions |-> "new"]
    /\ sessionId = [s \in Sessions |-> NoId]
    /\ heartbeatInterval = [s \in Sessions |-> FALSE]
    /\ autoDisconnectTimeout = [s \in Sessions |-> FALSE]
    /\ ended = [s \in Sessions |-> FALSE]
    /\ closeEmitted = [s \in Sessions |-> FALSE]
    /\ errorEmitted = [s \in Sessions |-> FALSE]
    /\ cleanupCalls = [s \in Sessions |-> 0]
    /\ stream = [s \in Sessions |-> << >>]
    /\ lastOp = NoOp
    /\ env = [authEnabled |-> FALSE, credentials |-> NullConfig]
    /\ now = 1000
    /\ req = [authorization |-> NoHeader, auth |-> NoAuth]
    /\ route = << >>
    /\ outcomes = << >>
    /\ scopeCheck = NoScopeCheck
    /\ stalled = [s \in Sessions |-> FALSE]
    /\ mcpSessionId = [s \in Sessions |-> NoId]
    /\ connectionData = [s \in Sessions |-> NoId]
    /\ identifiedBefore = FALSE
    /\ gateCheck = NoGateCheck

Next ==
    \/ \E s \in Sessions : SseHandler(s)
          /\ UNCHANGED <<authVars, scopeCheck, gateCheck, stalled>>
    \/ \E s \in Sessions : HeartbeatTick(s)
          /\ UNCHANGED <<authVars, scopeCheck, gateCheck, stalled, mcpSessionId, connectionData>>
    \/ \E s \in Sessions : ReqClose(s)
          /\ UNCHANGED <<authVars, scopeCheck, gateCheck, stalled, mcpSessionId, connectionData>>
    \/ \E s \in Sessions : ReqError(s)
          /\ UNCHANGED <<authVars, scopeCheck, gateCheck, stalled, mcpSessionId, connectionData>>
    \/ \E s \in Sessions : AutoDisconnectTimeout(s)
          /\ UNCHANGED <<authVars, scopeCheck, gateCheck, stalled, mcpSessionId, connectionData>>
    \/ SendMcpEvent
          /\ UNCHANGED <<authVars, scopeCheck, gateCheck, stalled, mcpSessionId, connectionData>>
    \/ BroadcastMcpEvent
          /\ UNCHANGED <<authVars, scopeCheck, gateCheck, stalled, mcpSessionId, connectionData>>
    \/ RemoveConnection
          /\ UNCHANGED <<authVars, scopeCheck, gateCheck, stalled, mcpSessionId, connectionData>>
    \/ GetSseStats
          /\ UNCHANGED <<authVars, scopeCheck, gateCheck, stalled, mcpSessionId, connectionData>>

AuthInit ==
    /\ env \in Envs
    /\ now \in NowValues
    /\ req \in {[authorization |-> h, auth |-> NoAuth] : h \in Headers}
    /\ route \in Routes
    /\ outcomes = << >>
    /\ connections = << >>
    /\ issued = {}
    /\ pc = [s \in Sessions |-> "new"]
    /\ sessionId = [s \in Sessions |-> NoId]
    /\ heartbeatInterval = [s \in Sessions |-> FALSE]
    /\ autoDisconnectTimeout = [s \in Sessions |-> FALSE]
    /\ ended = [s \in Sessions |-> FALSE]
    /\ closeEmitted = [s \in Sessions |-> FALSE]
    /\ errorEmitted = [s \in Sessions |-> FALSE]
    /\ cleanupCalls = [s \in Sessions |-> 0]
    /\ stream = [s \in Sessions |-> << >>]
    /\ lastOp = NoOp
    /\ scopeCheck = NoScopeCheck
    /\ stalled = [s \in Sessions |-> FALSE]
    /\ mcpSessionId = [s \in Sessions |-> NoId]
    /\ connectionData = [s \in Sessions |-> NoId]
    /\ identifiedBefore = FALSE
    /\ gateCheck = NoGateCheck

AuthNext ==
    \/ AuthMiddleware /\ UNCHANGED <<sseVars, scopeCheck, gateCheck, stalled>>
    \/ OptionalAuthMiddleware /\ UNCHANGED <<sseVars, scopeCheck, gateCheck, stalled>>
    \/ RequireScope /\ UNCHANGED <<sseVars, scopeCheck, gateCheck, stalled>>
    \/ NewRequest /\ UNCHANGED <<sseVars, scopeCheck, gateCheck, stalled>>

\* Calls of hasRequiredScope.
ScopeNext ==
    \/ HasRequiredScope /\ UNCHANGED <<sseVars, authVars, stalled>>
    \/ RequireScopeCall /\ UNCHANGED <<sseVars, authVars, stalled>>

\* Sessions whose peers stop reading, and the senders.
StalledPeerNext ==
    \/ \E s \in Sessions : SseHandler(s)
          /\ UNCHANGED <<authVars, scopeCheck, gateCheck, stalled>>
    \/ \E s \in Sessions : PeerStalls(s)
          /\ UNCHANGED <<authVars, scopeCheck, gateCheck, mcpSessionId, connectionData>>
    \/ SendMcpEvent
          /\ UNCHANGED <<authVars, scopeCheck, gateCheck, stalled, mcpSessionId, connectionData>>
    \/ BroadcastMcpEvent
          /\ UNCHANGED <<authVars, scopeCheck, gateCheck, stalled, mcpSessionId, connectionData>>

vars == <<sseVars, authVars, scopeCheck, gateCheck, stalled>>

\* The session manager and the session lifecycles.
Spec == Init /\ [][Next]_vars

\* The middleware chain of one request after the other.
AuthSpec == AuthInit /\ [][AuthNext]_vars

\* The session manager with timers that fire: a scheduled setTimeout callback
\* is eventually run by the event loop.
LifetimeSpec ==
    /\ Init
    /\ [][Next]_vars
    /\ \A s \in Sessions :
          WF_vars(/\ AutoDisconnectTimeout(s)
                  /\ UNCHANGED <<authVars, scopeCheck, gateCheck, stalled,
                                 mcpSessionId, connectionData>>)

\* The scope evaluator called on its own.
ScopeSpec == Init /\ [][ScopeNext]_vars

\* The session manager with peers that stop reading.
StalledPeerSpec == Init /\ [][StalledPeerNext]_vars

\* ===================================================================
\* Properties of the session manager and the session lifecycle (Spec)
\* ===================================================================

\* C1: for every session, teardown (cleanup: remove the session from the
\* registry and end the stream) executes exactly once; every trigger after
\* the first is a no-op, so cleanup never runs a second time.
C1_TeardownExactlyOnce ==
    \A s \in Sessions : cleanupCalls[s] <= 1

\* C2: once a session has been torn down, by whichever trigger, neither its
\* heartbeat ticker nor its absolute-lifetime timer is still scheduled.
C2_TimersCancelledAfterTeardown ==
    \A s \in Sessions :
        cleanupCalls[s] > 0 => ~heartbeatInterval[s] /\ ~autoDisconnectTimeout[s]

C4_SendToSession ==
    [][lastOp'.op = "sendToSession" =>
          LET id == lastOp'.id
              res == MapGet(connections, id)
          IN  /\ ~lastOp'.threw
              /\ ~MapHas(connections, id) =>
                    /\ lastOp'.ret = FALSE
                    /\ stream' = stream
                    /\ connections' = connections
              /\ (MapHas(connections, id) /\ lastOp'.chunks = 2) =>
                    /\ lastOp'.ret = TRUE
                    /\ connections' = connections
                    /\ stream' = [stream EXCEPT ![res] = Append(@, "message")]
              /\ (MapHas(connections, id) /\ lastOp'.chunks < 2) =>
                    /\ lastOp'.ret = FALSE
                    /\ connections' = SelectSeq(connections, LAMBDA e : e.id # id)
                    /\ stream' = stream
    ]_vars

\* C4 witness: a send to a registered session whose second write threw:
\* false is returned, that session is gone, another one is still registered.
C4_Witness ==
    /\ lastOp.op = "sendToSession"
    /\ lastOp.data = "json"
    /\ lastOp.chunks = 1
    /\ lastOp.ret = FALSE
    /\ lastOp.disconnects = <<lastOp.id>>
    /\ ~MapHas(connections, lastOp.id)
    /\ Len(connections) = 1

\* The steps that call removeConnection(lastOp'.id) exactly once.
IsDisconnect(op) == op \in CleanupOps \cup {"removeConnection"}

\* C5: connect of an unregistered id makes count() one greater and listIds()
\* contain the id; disconnect of a registered id makes count() one less and
\* listIds() no longer contain it; disconnect of an unregistered id changes
\* nothing, so a second disconnect of the same id changes nothing.
C5_RegistryCountAndIds ==
    [][LET id == lastOp'.id
       IN  /\ (lastOp'.op = "addConnection" /\ ~MapHas(connections, id)) =>
                 /\ getConnectionCount(connections') = getConnectionCount(connections) + 1
                 /\ id \in SeqRange(getSessionIds(connections'))
           /\ (IsDisconnect(lastOp'.op) /\ MapHas(connections, id)) =>
                 /\ getConnectionCount(connections') = getConnectionCount(connections) - 1
                 /\ id \notin SeqRange(getSessionIds(connections'))
                 /\ removeConnection(connections', id) = connections'
           /\ (IsDisconnect(lastOp'.op) /\ ~MapHas(connections, id)) =>
                 connections' = connections
    ]_vars

\* C5 witness: the second cleanup of a session, i.e. a disconnect of an id
\* that was registered and is already removed, with another session registered.
C5_Witness ==
    \E s \in Sessions :
        /\ cleanupCalls[s] = 2
        /\ lastOp.op \in CleanupOps
        /\ lastOp.id = sessionId[s]
        /\ getConnectionCount(connections) = 1
        /\ lastOp.id \notin SeqRange(getSessionIds(connections))

\* C6: the registry never holds two entries with the same id; addConnection
\* is never called with an id that is registered; and no two sessions, open,
\* closed or failed, were ever given the same id.
C6_SessionIdsUnique ==
    [][/\ \A i, j \in 1..Len(connections') :
             connections'[i].id = connections'[j].id => i = j
       /\ lastOp'.op = "addConnection" => ~MapHas(connections, lastOp'.id)
       /\ \A s1, s2 \in Sessions :
             (s1 # s2 /\ sessionId'[s1] # NoId) => sessionId'[s1] # sessionId'[s2]
    ]_vars

\* C6 witness: a session is registered after an earlier session was torn down.
C6_Witness ==
    \E s1, s2 \in Sessions :
        /\ s1 # s2
        /\ cleanupCalls[s1] > 0
        /\ lastOp.op = "addConnection"
        /\ lastOp.id = sessionId[s2]
        /\ MapGet(connections, sessionId[s2]) = s2
        /\ sessionId[s1] # NoId

\* The map after set(id, res) and after delete of each id of a list, run
\* one after the other.
SequentialSet(m, id, res) ==
    IF \E i \in 1..Len(m) : m[i].id = id
    THEN [i \in 1..Len(m) |-> IF m[i].id = id THEN [id |-> id, res |-> res] ELSE m[i]]
    ELSE m \o <<[id |-> id, res |-> res]>>

RECURSIVE SequentialDeletes(_, _)
SequentialDeletes(m, ids) ==
    IF ids = << >> THEN m
    ELSE SequentialDeletes(SelectSeq(m, LAMBDA e : e.id # Head(ids)), Tail(ids))

C20_StalledPeerDisconnected ==
    [][LET op == lastOp'
       IN  /\ (op.op = "broadcast" /\ op.data = "json") =>
                 \A s \in Registered(connections) \ op.failed :
                     stalled[s] =>
                         /\ \A o \in Registered(connections) \ op.failed :
                               ~stalled[o] => stream'[o] = Append(stream[o], "message")
                         /\ ~MapHas(connections', sessionId[s])
           /\ (/\ op.op = "sendToSession"
               /\ op.data = "json"
               /\ op.chunks = 2
               /\ MapHas(connections, op.id)
               /\ stalled[MapGet(connections, op.id)]) =>
                 ~MapHas(connections', op.id)
    ]_vars

\* ===================================================================
\* Properties of the authentication middleware (AuthSpec)
\* ===================================================================
BearerLower == <<"b", "e", "a", "r", "e", "r">>
BearerUpper == <<"B", "E", "A", "R", "E", "R">>

\* The header is a scheme that reads "bearer" in any letter case, one space,
\* and a non-empty token without a space.
WellFormedBearer(h) ==
    /\ h.present
    /\ Len(h.val) > Len(BearerLower) + 1
    /\ \A k \in 1..Len(BearerLower) : h.val[k] \in {BearerLower[k], BearerUpper[k]}
    /\ h.val[Len(BearerLower) + 1] = Space
    /\ \A k \in (Len(BearerLower) + 2)..Len(h.val) : h.val[k] # Space

BearerToken(h) == SubSeq(h.val, Len(BearerLower) + 2, Len(h.val))

TrustAnchorConfigured == env.authEnabled /\ ~env.credentials.isNull

FirstOr(a, b) == IF a = Undefined \/ a = "" THEN b ELSE a

\* The identity the claims of a payload stand for.
ExpectedUser(p) ==
    [userId    |-> FirstOr(Get(p, "user_id"), Get(p, "sub")),
     userName  |-> Get(p, "user_name"),
     email     |-> Get(p, "email"),
     clientId  |-> FirstOr(Get(p, "client_id"), Get(p, "cid")),
     scopes    |-> IF "scope" \in DOMAIN p THEN p.scope ELSE << >>,
     grantType |-> Get(p, "grant_type")]

\* C7: in required mode with a Trust Anchor and a well-formed bearer header
\* the verifier is called exactly once; on failure the gate sends one 401
\* {error: 'Unauthorized', message: the verifier's message}, attaches no
\* identity and does not call next(); on success it sends nothing, calls
\* next() and attaches the identity derived from the claims (user_id else
\* sub, client_id else cid, scope else empty, grant_type).
C7_RequiredModeVerifies ==
    \A k \in 1..Len(outcomes) :
        (/\ outcomes[k].mw = "authMiddleware"
         /\ TrustAnchorConfigured
         /\ WellFormedBearer(req.authorization)) =>
            LET o == outcomes[k]
                v == validateJwtToken(BearerToken(req.authorization),
                                      env.credentials, now)
            IN  /\ o.verifyCalls = 1
                /\ ~v.valid =>
                      /\ o.responses = <<Response(401, [error |-> "Unauthorized",
                                                         message |-> v.error])>>
                      /\ o.next = 0
                      /\ ~o.authAfter.present
                /\ v.valid =>
                      /\ o.responses = << >>
                      /\ o.next = 1
                      /\ o.authAfter.present
                      /\ o.authAfter.token = BearerToken(req.authorization)
                      /\ o.authAfter.payload = v.payload
                      /\ o.authAfter.user = ExpectedUser(v.payload)

\* C7 witness: a client-credentials token without user_id, with an empty
\* client_id and without scope passed required mode: the identity falls back
\* to sub and cid and has no scopes.
C7_Witness ==
    /\ Len(outcomes) >= 1
    /\ outcomes[1].mw = "authMiddleware"
    /\ TrustAnchorConfigured
    /\ req.authorization = Header(Bearer \o <<Space, "c">>)
    /\ outcomes[1].next = 1
    /\ outcomes[1].verifyCalls = 1
    /\ outcomes[1].authAfter.present
    /\ outcomes[1].authAfter.user.userId = "sub-c"
    /\ outcomes[1].authAfter.user.clientId = "cid-c"
    /\ outcomes[1].authAfter.user.scopes = << >>

\* C8: in required mode with a Trust Anchor, a request whose Authorization
\* header is absent or is not scheme "bearer" (any case), one space and a
\* non-empty token is answered with one 401 whose body is {error:
\* 'Unauthorized', message}; the verifier is not called, no identity is
\* attached and next() is not called.
C8_MalformedHeaderRejected ==
    \A k \in 1..Len(outcomes) :
        (/\ outcomes[k].mw = "authMiddleware"
         /\ TrustAnchorConfigured
         /\ ~WellFormedBearer(req.authorization)) =>
            LET o == outcomes[k]
            IN  /\ Len(o.responses) = 1
                /\ o.responses[1].status = 401
                /\ DOMAIN o.responses[1].body = {"error", "message"}
                /\ o.responses[1].body.error = "Unauthorized"
                /\ o.verifyCalls = 0
                /\ ~o.authAfter.present
                /\ o.next = 0

\* C8 witness: the header "Bearer " (empty token) was rejected with 401.
C8_Witness ==
    /\ Len(outcomes) = 1
    /\ outcomes[1].mw = "authMiddleware"
    /\ TrustAnchorConfigured
    /\ req.authorization = Header(Bearer \o <<Space>>)
    /\ outcomes[1].responses # << >>
    /\ outcomes[1].responses[1].status = 401
    /\ outcomes[1].verifyCalls = 0

\* C9: with no Trust Anchor (auth disabled, or no credentials found),
\* required mode and optional mode call next(), send no response, do not
\* call the verifier and leave the identity absent, whatever the header.
C9_NoTrustAnchorNeverRejects ==
    \A k \in 1..Len(outcomes) :
        (/\ outcomes[k].mw \in {"authMiddleware", "optionalAuthMiddleware"}
         /\ ~TrustAnchorConfigured) =>
            /\ outcomes[k].next = 1
            /\ outcomes[k].responses = << >>
            /\ outcomes[k].verifyCalls = 0
            /\ ~outcomes[k].authAfter.present

\* C9 witness: auth is disabled although credentials are bound, and a
\* request with a badly signed token went through required mode.
C9_Witness ==
    /\ ~env.authEnabled
    /\ ~env.credentials.isNull
    /\ Len(outcomes) = 1
    /\ outcomes[1].mw = "authMiddleware"
    /\ req.authorization = Header(Bearer \o <<Space, "s">>)
    /\ outcomes[1].next = 1

\* C10: with no Trust Anchor, a route of required mode followed by
\* scope-gated mode never rejects: every stage calls next() and sends no
\* response, and the identity stays absent.
C10_NoTrustAnchorScopeRouteNeverRejects ==
    (/\ ~TrustAnchorConfigured
     /\ Len(route) = 2
     /\ route[1].mw = "authMiddleware"
     /\ route[2].mw = "requireScope") =>
        \A k \in 1..Len(outcomes) :
            /\ outcomes[k].next = 1
            /\ outcomes[k].responses = << >>
            /\ ~outcomes[k].authAfter.present

\* C11: in optional mode the gate never rejects: whatever the header and
\* whatever the verifier answers, it calls next() and sends no response; an
\* identity is attached if and only if a Trust Anchor is configured, the
\* header is a well-formed bearer credential and its verification succeeded.
C11_OptionalModeNeverRejects ==
    \A k \in 1..Len(outcomes) :
        outcomes[k].mw = "optionalAuthMiddleware" =>
            /\ outcomes[k].next = 1
            /\ outcomes[k].responses = << >>
            /\ outcomes[k].authAfter.present <=>
                  /\ TrustAnchorConfigured
                  /\ WellFormedBearer(req.authorization)
                  /\ validateJwtToken(BearerToken(req.authorization),
                                      env.credentials, now).valid

\* C11 witness: optional mode verified a badly signed token, attached no
\* identity and continued.
C11_Witness ==
    /\ Len(outcomes) >= 1
    /\ outcomes[1].mw = "optionalAuthMiddleware"
    /\ TrustAnchorConfigured
    /\ req.authorization = Header(Bearer \o <<Space, "s">>)
    /\ outcomes[1].verifyCalls = 1
    /\ outcomes[1].next = 1
    /\ ~outcomes[1].authAfter.present

\* Some required scope, bare or prefixed with "<appId>.", is among the scopes.
SomeScopeGranted(required, appId, scopes) ==
    \E i \in 1..Len(required) :
        \E j \in 1..Len(scopes) :
            \/ scopes[j] = required[i]
            \/ scopes[j] = appId \o <<".">> \o required[i]

\* C12: in scope-gated mode with a Trust Anchor, a request without identity
\* is answered 401 and does not continue; a request with identity continues
\* if and only if some required scope r has r or "<appId>.r" among the
\* identity's scopes, and is otherwise answered 403 with body {error:
\* 'Forbidden', message, userScopes}, userScopes being the caller's scope
\* list. An identity with scopes [appId.read] passes required scope read and
\* gets 403 with userScopes [appId.read] for required scope admin.
C12_ScopeGate ==
    \A k \in 1..Len(outcomes) :
        (outcomes[k].mw = "requireScope" /\ TrustAnchorConfigured) =>
            LET o == outcomes[k]
                R == route[k].scopes
                a == o.authBefore
            IN  IF ~a.present
                THEN /\ o.next = 0
                     /\ Len(o.responses) = 1
                     /\ o.responses[1].status = 401
                ELSE LET granted == SomeScopeGranted(R, env.credentials.xsappname,
                                                     a.user.scopes)
                     IN  /\ granted => o.next = 1 /\ o.responses = << >>
                         /\ ~granted =>
                               /\ o.next = 0
                               /\ Len(o.responses) = 1
                               /\ o.responses[1].status = 403
                               /\ DOMAIN o.responses[1].body =
                                     {"error", "message", "userScopes"}
                               /\ o.responses[1].body.error = "Forbidden"
                               /\ o.responses[1].body.userScopes = a.user.scopes
                         /\ (a.user.scopes = <<AppName \o <<".">> \o ScopeRead>>
                             /\ R = <<ScopeRead>>) => o.next = 1
                         /\ (a.user.scopes = <<AppName \o <<".">> \o ScopeRead>>
                             /\ R = <<ScopeAdmin>>) =>
                               /\ o.responses # << >>
                               /\ o.responses[1].status = 403
                               /\ o.responses[1].body.userScopes =
                                     <<AppName \o <<".">> \o ScopeRead>>

\* C12 witness: the identity with scopes [appId.read] met required scope
\* admin and was answered 403 with its own scope list.
C12_Witness ==
    /\ Len(outcomes) = 2
    /\ TrustAnchorConfigured
    /\ outcomes[2].mw = "requireScope"
    /\ route[2].scopes = <<ScopeAdmin>>
    /\ outcomes[2].authBefore.present
    /\ outcomes[2].authBefore.user.scopes = <<AppName \o <<".">> \o ScopeRead>>
    /\ outcomes[2].responses # << >>
    /\ outcomes[2].responses[1].status = 403

\* C13: hasRequiredScope(claims, s, appId) is true if and only if s or
\* "<appId>.s" is a member of claims.scope; for an empty or absent scope list
\* it is false for every s and every appId.
C13_HasRequiredScope ==
    scopeCheck.called =>
        LET p == scopeCheck.payload
            s == scopeCheck.requiredScope
            appId == scopeCheck.xsappname
            scopes == IF "scope" \in DOMAIN p THEN p.scope ELSE << >>
        IN  /\ scopeCheck.ret <=>
                  \E j \in 1..Len(scopes) :
                      scopes[j] = s \/ scopes[j] = appId \o <<".">> \o s
            /\ scopes = << >> => ~scopeCheck.ret

\* C13 witness: a call returned true for a scope held only in its prefixed
\* form.
C13_Witness ==
    /\ scopeCheck.called
    /\ scopeCheck.ret
    /\ scopeCheck.requiredScope = ScopeRead
    /\ scopeCheck.xsappname = AppName
    /\ scopeCheck.payload.scope = <<ScopeAdmin, AppName \o <<".">> \o ScopeRead>>

\* --- the verifier as the gate calls it
\* The stages of the current request that called validateJwtToken.
Verifications == {k \in 1..Len(outcomes) : outcomes[k].verifyCalls = 1}

\* The credential of the request, decoded, and the verifier's answer to it.
Credential == DecodeToken(BearerToken(req.authorization))

Verdict == validateJwtToken(BearerToken(req.authorization), env.credentials, now)

\* The token carries an RS256 signature made with the Trust Anchor's key.
ValidSignature(d, key) ==
    d.wellFormed /\ d.alg = "RS256" /\ key # "" /\ d.signedBy = key

IssuerMatches(d, url) ==
    "iss" \in DOMAIN d.payload /\ d.payload.iss = <<url, "/oauth/token">>

ExpiryInFuture(d, t) == "exp" \in DOMAIN d.payload /\ t < d.payload.exp + 30

ExpiredBeyondSkew(d, t) == "exp" \in DOMAIN d.payload /\ t > d.payload.exp + 30

ExpiredWithinSkew(d, t) ==
    /\ "exp" \in DOMAIN d.payload
    /\ d.payload.exp <= t
    /\ t < d.payload.exp + 30

IsPrefix(pre, str) ==
    Len(pre) <= Len(str) /\ \A i \in 1..Len(pre) : str[i] = pre[i]

\* Some audience value equals appId, equals "sb-" + appId or starts with appId.
AudienceAccepted(d, appId) ==
    /\ "aud" \in DOMAIN d.payload
    /\ \E i \in 1..Len(d.payload.aud) :
          \/ d.payload.aud[i] = appId
          \/ d.payload.aud[i] = <<"s", "b", "-">> \o appId
          \/ IsPrefix(appId, d.payload.aud[i])

\* The message contains the text.
Names(msg, text) ==
    \E i \in 1..Len(msg) :
        i + Len(text) - 1 <= Len(msg) /\ SubSeq(msg, i, i + Len(text) - 1) = text

IsExpiredError(v) == ~v.valid /\ v.error = <<"Token has expired">>

IsInvalidAudienceError(v) ==
    ~v.valid /\ Len(v.error) > 0 /\ v.error[1] = "Invalid audience. Expected: "

IsInvalidTokenError(v) ==
    ~v.valid /\ Len(v.error) > 0 /\ v.error[1] = "Invalid token: "

IsMissingKeyError(v) == ~v.valid /\ v.error = <<"XSUAA verification key not found">>

\* C14: a credential with a valid signature under the Trust Anchor's key,
\* issuer "<anchorUrl>/oauth/token", expiry in the future within the
\* 30-second skew and an audience value that equals appId, equals "sb-" +
\* appId or starts with appId is verified: valid = true and the payload is
\* the decoded claims (the identity the gate attaches carries them).
C14_ValidCredentialVerifies ==
    \A k \in Verifications :
        (/\ ValidSignature(Credential, env.credentials.verificationkey)
         /\ IssuerMatches(Credential, env.credentials.url)
         /\ ExpiryInFuture(Credential, now)
         /\ AudienceAccepted(Credential, env.credentials.xsappname)) =>
            /\ Verdict.valid
            /\ Verdict.payload = Credential.payload
            /\ outcomes[k].next = 1
            /\ outcomes[k].authAfter.present
            /\ outcomes[k].authAfter.payload = Credential.payload

\* C14 witness: a credential that expired 29 seconds ago and whose only
\* matching audience is "sb-" + appId was verified.
C14_Witness ==
    /\ Len(outcomes) >= 1
    /\ 1 \in Verifications
    /\ req.authorization = Header(Bearer \o <<Space, "c">>)
    /\ now = Tokens.c.payload.exp + 29
    /\ outcomes[1].authAfter.present
    /\ outcomes[1].authAfter.payload = Tokens.c.payload

\* C15 as stated: every credential none of whose audience values equals
\* appId, equals "sb-" + appId or starts with appId (an empty or absent
\* audience included) fails with the InvalidAudience error, whose message
\* names appId and "sb-" + appId.
C15_AnyCredentialInvalidAudience ==
    \A k \in Verifications :
        ~AudienceAccepted(Credential, env.credentials.xsappname) =>
            /\ IsInvalidAudienceError(Verdict)
            /\ Names(Verdict.error, env.credentials.xsappname)
            /\ Names(Verdict.error, <<"s", "b", "-">> \o env.credentials.xsappname)

\* C15 amended: a credential that passes the signature, expiry and issuer
\* checks and none of whose audience values equals appId, equals "sb-" +
\* appId or starts with appId (an empty or absent audience included) fails
\* with the InvalidAudience error, whose message names appId and "sb-" +
\* appId; required mode answers 401 with that message.
C15_VerifiedCredentialInvalidAudience ==
    \A k \in Verifications :
        (/\ ValidSignature(Credential, env.credentials.verificationkey)
         /\ IssuerMatches(Credential, env.credentials.url)
         /\ ~("exp" \in DOMAIN Credential.payload
              /\ now >= Credential.payload.exp + 30)
         /\ ~AudienceAccepted(Credential, env.credentials.xsappname)) =>
            /\ IsInvalidAudienceError(Verdict)
            /\ Names(Verdict.error, env.credentials.xsappname)
            /\ Names(Verdict.error, <<"s", "b", "-">> \o env.credentials.xsappname)
            /\ ~outcomes[k].authAfter.present
            /\ outcomes[k].mw = "authMiddleware" =>
                  /\ Len(outcomes[k].responses) = 1
                  /\ outcomes[k].responses[1].status = 401
                  /\ outcomes[k].responses[1].body.message = Verdict.error

\* C15 witness: a well-signed credential with an empty audience list was
\* rejected by required mode with the InvalidAudience message.
C15_Witness ==
    /\ Len(outcomes) >= 1
    /\ 1 \in Verifications
    /\ outcomes[1].mw = "authMiddleware"
    /\ req.authorization = Header(Bearer \o <<Space, "z">>)
    /\ env.credentials.verificationkey = "KEY"
    /\ outcomes[1].responses # << >>
    /\ IsInvalidAudienceError([valid |-> FALSE,
                               error |-> outcomes[1].responses[1].body.message])

\* C16 as stated: every credential whose expiry lies more than 30 seconds
\* before the current time fails with 'Token has expired' and with no other
\* error; a credential whose expiry lies less than 30 seconds in the past is
\* not rejected as expired.
C16_AnyExpiredCredential ==
    \A k \in Verifications :
        /\ ExpiredBeyondSkew(Credential, now) => IsExpiredError(Verdict)
        /\ ExpiredWithinSkew(Credential, now) => ~IsExpiredError(Verdict)

\* C16 amended: a credential with a valid signature under the Trust
\* Anchor's key whose expiry lies more than 30 seconds before the current
\* time fails with 'Token has expired' and with no other error (required
\* mode answers 401 with that message); a credential whose expiry lies less
\* than 30 seconds in the past is not rejected as expired.
C16_SignedExpiredCredential ==
    \A k \in Verifications :
        /\ (/\ ValidSignature(Credential, env.credentials.verificationkey)
            /\ ExpiredBeyondSkew(Credential, now)) =>
              /\ IsExpiredError(Verdict)
              /\ ~outcomes[k].authAfter.present
              /\ outcomes[k].mw = "authMiddleware" =>
                    /\ Len(outcomes[k].responses) = 1
                    /\ outcomes[k].responses[1].status = 401
                    /\ outcomes[k].responses[1].body.message = <<"Token has expired">>
        /\ ExpiredWithinSkew(Credential, now) => ~IsExpiredError(Verdict)

\* C16 witness: a well-signed credential that expired 31 seconds ago was
\* rejected by required mode with 'Token has expired'.
C16_Witness ==
    /\ Len(outcomes) >= 1
    /\ 1 \in Verifications
    /\ outcomes[1].mw = "authMiddleware"
    /\ req.authorization = Header(Bearer \o <<Space, "e">>)
    /\ env.credentials.verificationkey = "KEY"
    /\ now = Tokens.e.payload.exp + 31
    /\ outcomes[1].responses # << >>
    /\ outcomes[1].responses[1].body.message = <<"Token has expired">>

C18_FixedAlgorithmAndIssuer ==
    \A k \in Verifications :
        (\/ Credential.alg # "RS256"
         \/ Credential.signedBy # env.credentials.verificationkey
         \/ ~IssuerMatches(Credential, env.credentials.url)) =>
            /\ ~Verdict.valid
            /\ ~outcomes[k].authAfter.present
            /\ outcomes[k].mw = "authMiddleware" =>
                  /\ outcomes[k].next = 0
                  /\ outcomes[k].responses # << >>
                  /\ outcomes[k].responses[1].status = 401

\* C18 witness: an HS256 token keyed with the Trust Anchor's public key and
\* otherwise valid was rejected by required mode.
C18_Witness ==
    /\ Len(outcomes) >= 1
    /\ 1 \in Verifications
    /\ outcomes[1].mw = "authMiddleware"
    /\ env.credentials.verificationkey = "KEY"
    /\ req.authorization = Header(Bearer \o <<Space, "h">>)
    /\ outcomes[1].next = 0
    /\ outcomes[1].responses # << >>
    /\ outcomes[1].responses[1].body.message = <<"Invalid token: ", "invalid algorithm">>

\* ===================================================================
\* Properties of the session lifecycle (Spec, LifetimeSpec)
\* ===================================================================
\* The sessions the id of an operation stands for.
SessionsOf(id) == {s \in Sessions : pc[s] = "open" /\ sessionId[s] = id}

\* C21: when the lifetime timer of an Open session fires, the
\* 'session-expired' event is written to its stream before teardown (it
\* reaches the stream if both writes return); whether or not the write
\* fails, teardown runs in the same step. A teardown by peer close,
\* connection error or heartbeat failure writes nothing to the stream.
C21_SessionExpiredBeforeTeardown ==
    [][\A s \in SessionsOf(lastOp'.id) :
          /\ lastOp'.op = "timeout" =>
                /\ cleanupCalls'[s] = cleanupCalls[s] + 1
                /\ ended'[s]
                /\ ~MapHas(connections', sessionId[s])
                /\ ~ended[s] =>
                      stream'[s] = IF lastOp'.chunks = 2
                                   THEN Append(stream[s], "session-expired")
                                   ELSE stream[s]
          /\ lastOp'.op \in {"close", "error", "heartbeat-failed"} =>
                stream'[s] = stream[s]
    ]_vars

\* C21 witness: the lifetime timer of an Open session fired, the write of
\* 'session-expired' failed and the session was torn down all the same.
C21_Witness ==
    \E s \in Sessions :
        /\ lastOp.op = "timeout"
        /\ lastOp.id = sessionId[s]
        /\ lastOp.chunks < 2
        /\ cleanupCalls[s] = 1
        /\ ended[s]
        /\ ~MapHas(connections, sessionId[s])
        /\ \A i \in 1..Len(stream[s]) : stream[s][i] # "session-expired"

\* C22: a session that was entered has exactly one 'connected' event on its
\* stream, and it is the first frame; the event carries the id that the
\* Mcp-Session-Id header carries and under which the session is registered;
\* a stream whose 'connected' event was not written holds no frame.
C22_ConnectedEventFirst ==
    /\ \A s \in Sessions :
          /\ pc[s] = "open" =>
                /\ stream[s] # << >>
                /\ stream[s][1] = "connected"
                /\ \A i \in 2..Len(stream[s]) : stream[s][i] # "connected"
                /\ sessionId[s] # NoId
                /\ connectionData[s] = sessionId[s]
                /\ mcpSessionId[s] = sessionId[s]
          /\ pc[s] # "open" => stream[s] = << >>
    /\ \A i \in 1..Len(connections) :
          /\ connections[i].id = mcpSessionId[connections[i].res]
          /\ connections[i].id = connectionData[connections[i].res]

\* C22 witness: a registered session whose stream holds 'connected', then a
\* heartbeat, then a message.
C22_Witness ==
    \E s \in Sessions :
        /\ MapGet(connections, sessionId[s]) = s
        /\ stream[s] = <<"connected", "heartbeat", "message">>
        /\ connectionData[s] = mcpSessionId[s]

\* C23: a heartbeat tick of an Open session writes one keep-alive frame to
\* its stream and changes nothing else; a tick whose write fails closes the
\* session in that step: the ticker is cancelled, the session is removed
\* from the Registry and the stream is ended; a cancelled ticker is never
\* scheduled again, so no further heartbeat is attempted.
C23_HeartbeatFailureCloses ==
    [][\A s \in Sessions :
          /\ (lastOp'.op = "heartbeat" /\ s \in SessionsOf(lastOp'.id)) =>
                /\ heartbeatInterval[s]
                /\ ~ended[s]
                /\ stream'[s] = Append(stream[s], "heartbeat")
                /\ connections' = connections
                /\ heartbeatInterval'[s]
          /\ (lastOp'.op = "heartbeat-failed" /\ s \in SessionsOf(lastOp'.id)) =>
                /\ heartbeatInterval[s]
                /\ ~heartbeatInterval'[s]
                /\ ~MapHas(connections', sessionId[s])
                /\ ended'[s]
                /\ stream'[s] = stream[s]
          /\ (pc[s] = "open" /\ ~heartbeatInterval[s]) => ~heartbeatInterval'[s]
    ]_vars

\* C23 witness: after one heartbeat was written, the next heartbeat write
\* failed and the session was closed.
C23_Witness ==
    \E s \in Sessions :
        /\ lastOp.op = "heartbeat-failed"
        /\ lastOp.id = sessionId[s]
        /\ stream[s] = <<"connected", "heartbeat">>
        /\ ~heartbeatInterval[s]
        /\ ended[s]
        /\ ~MapHas(connections, sessionId[s])

\* C24: if scheduled timers eventually fire, every session that reaches
\* Open eventually is Closed (stream ended, ticker cancelled) and absent
\* from the Registry, even when nothing else closes it.
C24_EverySessionCloses ==
    \A s \in Sessions :
        (pc[s] = "open") ~>
            (/\ ended[s]
             /\ ~heartbeatInterval[s]
             /\ ~MapHas(connections, sessionId[s]))

\* C24 witness: a session without peer close, connection error or write
\* failure was torn down by its lifetime timer.
C24_Witness ==
    \E s \in Sessions :
        /\ lastOp.op = "timeout"
        /\ lastOp.id = sessionId[s]
        /\ lastOp.chunks = 2
        /\ ~closeEmitted[s]
        /\ ~errorEmitted[s]
        /\ cleanupCalls[s] = 1
        /\ ended[s]
        /\ ~MapHas(connections, sessionId[s])

\* C25: no write failure leaves sseHandler, a timer callback or a registry
\* operation as an exception: the only exception an operation lets out is
\* the JSON.stringify failure of a broadcast, which is no write failure.
C25_WriteFailuresCaught ==
    lastOp.threw => (lastOp.op = "broadcast" /\ StringifyThrows(lastOp.data))

\* C26: a session that was entered is in the Registry if and only if it is
\* Open: its stream is not ended and its heartbeat ticker and its lifetime
\* timer are scheduled.
C26_RegisteredIffOpen ==
    \A s \in Sessions :
        pc[s] = "open" =>
            (MapHas(connections, sessionId[s]) <=>
                (~ended[s] /\ heartbeatInterval[s] /\ autoDisconnectTimeout[s]))

\* The sessions other than those of T keep their registration, their timers
\* and their stream's state; those of W get one 'message' frame and the
\* other streams get nothing.
OthersUntouched(T, W) ==
    \A o \in Sessions \ T :
        /\ MapHas(connections', sessionId[o]) = MapHas(connections, sessionId[o])
        /\ heartbeatInterval'[o] = heartbeatInterval[o]
        /\ autoDisconnectTimeout'[o] = autoDisconnectTimeout[o]
        /\ ended'[o] = ended[o]
        /\ stream'[o] = IF o \in W THEN Append(stream[o], "message") ELSE stream[o]

\* C30: a teardown of session A by any trigger, a disconnect(A) and a failed
\* sendTo or broadcast write to A leave every other session as it was: still
\* registered if it was, its timers scheduled as before, its stream not
\* ended and not written to (but for the frame a broadcast delivers to it).
C30_OtherSessionsUntouched ==
    [][LET A == {s \in Sessions : sessionId[s] # NoId /\ sessionId[s] = lastOp'.id}
       IN  /\ lastOp'.op \in CleanupOps \cup {"removeConnection"} =>
                 OthersUntouched(A, {})
           /\ (lastOp'.op = "sendToSession" /\ lastOp'.disconnects # << >>) =>
                 OthersUntouched(A, {})
           /\ (lastOp'.op = "broadcast" /\ ~lastOp'.threw) =>
                 OthersUntouched(lastOp'.failed,
                                 Registered(connections) \ lastOp'.failed)
    ]_vars

\* C30 witness: a sendTo write to one session failed and removed it while
\* another session stayed registered, with both timers scheduled and its
\* stream open.
C30_Witness ==
    \E a, o \in Sessions :
        /\ a # o
        /\ lastOp.op = "sendToSession"
        /\ lastOp.disconnects = <<sessionId[a]>>
        /\ ~MapHas(connections, sessionId[a])
        /\ MapHas(connections, sessionId[o])
        /\ heartbeatInterval[o]
        /\ autoDisconnectTimeout[o]
        /\ ~ended[o]

\* ===================================================================
\* Properties of the gate across requests and of the scope test
\* (AuthSpec, ScopeSpec)
\* ===================================================================
\* What the first stage of the route does to a request that carries the
\* header of the current one and no identity.
FirstStageOnFreshRequest ==
    LET fresh == [authorization |-> req.authorization, auth |-> NoAuth]
        cfg == IF env.authEnabled THEN env.credentials ELSE NullConfig
    IN  IF route[1].mw = "authMiddleware"
        THEN authMiddleware(cfg, fresh, now)
        ELSE optionalAuthMiddleware(cfg, fresh, now)

C28_ScopeGateMatchesEvaluator ==
    gateCheck.called =>
        /\ gateCheck.allowed <=>
              \E i \in 1..Len(gateCheck.requiredScopes) :
                  hasRequiredScope(gateCheck.payload, gateCheck.requiredScopes[i],
                                   gateCheck.xsappname)
        /\ gateCheck.requiredScopes = << >> => ~gateCheck.allowed

\* C28 witness: the gate allowed an identity that holds only the second of
\* two required scopes, and only in its prefixed form.
C28_Witness ==
    /\ gateCheck.called
    /\ gateCheck.allowed
    /\ gateCheck.requiredScopes = <<ScopeAdmin, ScopeRead>>
    /\ gateCheck.xsappname = AppName
    /\ gateCheck.payload.scope = <<AppName \o <<".">> \o ScopeRead>>

\* C29: every stage has exactly one outcome: it calls next() once and sends
\* no response, or it sends one response, 401 or 403, and does not call
\* next(). authMiddleware and optionalAuthMiddleware change req.auth only
\* when they call next(); requireScope never changes req.auth.
C29_ExactlyOneOutcome ==
    \A k \in 1..Len(outcomes) :
        LET o == outcomes[k]
        IN  /\ \/ o.next = 1 /\ o.responses = << >>
               \/ /\ o.next = 0
                  /\ Len(o.responses) = 1
                  /\ o.responses[1].status \in {401, 403}
            /\ o.authAfter # o.authBefore => o.next = 1
            /\ o.mw = "requireScope" => o.authAfter = o.authBefore

\* C29 witness: required mode attached an identity and continued, and the
\* scope gate then answered 403 and left req.auth as it was.
C29_Witness ==
    /\ Len(outcomes) = 2
    /\ outcomes[1].mw = "authMiddleware"
    /\ outcomes[1].next = 1
    /\ outcomes[1].authAfter.present
    /\ outcomes[2].mw = "requireScope"
    /\ outcomes[2].next = 0
    /\ outcomes[2].responses # << >>
    /\ outcomes[2].responses[1].status = 403
    /\ outcomes[2].authAfter = outcomes[1].authAfter

====
